---- MODULE Spec2Model ----
(***************************************************************************)
(* Wiederlade-Rechner (src/src/App.tsx, src/src/types.ts).                 *)
(*                                                                         *)
(* The App component (cost form, load manager, tab switch) and the         *)
(* AnalysisTab component (image upload, analysis request) as a state       *)
(* machine.  One action per event handler / callback.  React state of a    *)
(* component that is not mounted does not exist: the AnalysisTab variables *)
(* hold the useState defaults while no instance is mounted.  A request     *)
(* started by an instance stays in flight when the instance is unmounted;  *)
(* its callback then finds no state to update.  A file read of an          *)
(* unmounted instance ends the same way and is dropped at the unmount.     *)
(***************************************************************************)
EXTENDS Integers, Sequences, FiniteSets, Bags, TLC

(***************************************************************************)
(* Bounds of the model                                                     *)
(***************************************************************************)
MaxStored == 2   \* records in the list found in localStorage at startup
MaxAdds   == 1   \* addLoad calls that create a record
NumFiles  == 2   \* distinct image files the user can pick
MaxReads  == 2   \* FileReader reads in flight at the same time
MaxRequests == 2 \* analysis requests in flight at the same time
MaxEdits  == 3   \* edits of the cost form
MaxTyped  == 20  \* typed converter values per range, in steps of 0.0001

(***************************************************************************)
(* JSON values and localStorage items                                      *)
(***************************************************************************)
\* a JSON array of load records / a JSON value that is not an array
JArray(s) == [type |-> "array", items |-> s]
JObject   == [type |-> "object", items |-> << >>]

\* localStorage.getItem result: null, or a text.  A text is the empty
\* string, text that is not JSON, or the JSON text of a value.
NoItem      == [present |-> FALSE, syntax |-> "none",    value |-> JArray(<< >>)]
EmptyText   == [present |-> TRUE,  syntax |-> "empty",   value |-> JArray(<< >>)]
GarbageText == [present |-> TRUE,  syntax |-> "garbage", value |-> JArray(<< >>)]
JSONstringify(v) == [present |-> TRUE, syntax |-> "json", value |-> v]

\* JSON.parse: a SyntaxError for anything that is not JSON text
JSONparseThrows(item) == item.syntax # "json"
JSONparse(item)       == item.value

\* truthiness of a getItem result: null and "" are falsy
Truthy(item) == item.present /\ item.syntax # "empty"

(***************************************************************************)
(* Load records                                                            *)
(***************************************************************************)
Today == "03.11.2026"

\* the form state newLoad: "" stands for an absent or empty text field and 0
\* for an absent or zero number; the code reads the fields only through
\* `|| ''`, `|| 0` and truthiness, which do not tell them apart
EmptyForm == [name |-> "", caliber |-> "", bulletWeight |-> 0,
              powderType |-> "", powderCharge |-> 0, primerType |-> ""]

TextFields == {"name", "caliber", "powderType", "primerType"}
NumFields  == {"bulletWeight", "powderCharge"}

\* a record as an earlier session stored it
StoredRecord(i) == [id |-> i, name |-> "Target Load", caliber |-> ".308 Win",
                    bulletWeight |-> 168, powderType |-> "N140",
                    powderCharge |-> 42, primerType |-> "CCI",
                    date |-> "01.01.2026"]

RECURSIVE Injective(_)
Injective(s) ==
    IF Len(s) <= 1 THEN TRUE
    ELSE (\A k \in 2..Len(s) : s[k] # s[1]) /\ Injective(Tail(s))

\* lists an earlier session can have written: records with distinct ids
StoredIdLists ==
    {s \in UNION {[1..n -> 1..MaxStored] : n \in 0..MaxStored} : Injective(s)}

StoredLists == {[k \in 1..Len(s) |-> StoredRecord(s[k])] : s \in StoredIdLists}

\* possible contents of the key 'reloading_loads' when the app starts
StoredContents ==
    {NoItem, EmptyText, GarbageText, JSONstringify(JObject)}
        \cup {JSONstringify(JArray(l)) : l \in StoredLists}

(***************************************************************************)
(* Number inputs: the text of an <input type="number"> and parseFloat      *)
(***************************************************************************)
NaN == [nan |-> TRUE, num |-> 0]
Num(n) == [nan |-> FALSE, num |-> n]

parseFloat(text) ==
    CASE text = ""    -> NaN
      [] text = "abc" -> NaN
      [] text = "0"   -> Num(0)
      [] text = "-2"  -> Num(-2)
      [] text = "3"   -> Num(3)
      [] text = "168" -> Num(168)

\* `x || d` for a number x: NaN and 0 are falsy
OrElse(x, d) == IF x.nan \/ x.num = 0 THEN d ELSE x.num

\* The text of a converter field: a decimal numeral with sign, digits val
\* and dp digits after the point ("15.43" is val 1543, dp 2), the empty
\* text, or a text that is no number.
Decimal(neg, val, dp) == [kind |-> "decimal", neg |-> neg, val |-> val, dp |-> dp]
EmptyInput   == [kind |-> "empty",   neg |-> FALSE, val |-> 0, dp |-> 0]
GarbageInput == [kind |-> "garbage", neg |-> FALSE, val |-> 0, dp |-> 0]

RECURSIVE Pow10(_)
Pow10(k) == IF k = 0 THEN 1 ELSE 10 * Pow10(k - 1)

\* Number(val): the empty text is the number 0
NumberE4(text) ==
    IF text.kind = "garbage" THEN NaN
    ELSE Num((IF text.neg THEN -1 ELSE 1) * text.val * Pow10(4 - text.dp))

\* parseFloat of a converter text; the number is in units of 0.0001
parseFloatE4(text) ==
    IF text.kind # "decimal" THEN NaN
    ELSE Num((IF text.neg THEN -1 ELSE 1) * text.val * Pow10(4 - text.dp))

(***************************************************************************)
(* Image analysis values                                                   *)
(***************************************************************************)
Files   == 1..NumFiles
NoImage == 0                       \* selectedImage === null
\* the data URL FileReader produces for a file
DataURL(f) == f

NoError      == "null"
ErrorMessage == "Fehler bei der Analyse. Bitte versuche es erneut."

\* result === null; otherwise the parsed response: the image it was
\* computed from and the shape of the JSON the service returned
NoResult == [forImage |-> NoImage, shape |-> "null"]

\* response.text of the service: a complete AnalysisResult, one with more
\* hits than expected, one without groupSizeMm, the empty text, not JSON
ResponseTexts == {"full", "overlong", "partial", "empty", "garbage"}

Tabs == {"costs", "converter", "loads", "analysis"}

VARIABLES
    appStatus,      \* "starting" | "running" | "crashed" (uncaught render/effect error)
    activeTab,
    costs, edits,
    convGrains, convGrams,   \* the texts of the two converter fields
    loads, newLoad, storage, nextId,
    retiredIds,     \* history: the ids of the records deleted so far
    otherStatus, otherLoads,   \* a second browser tab of the same origin: its appStatus and loads
    selectedImage, isAnalyzing, result, error, bulletDiameter, expectedShots,
    reads,          \* bag of the files FileReader is reading for the mounted AnalysisTab
    requests,       \* bag of generateContent calls in flight
    lastEvent       \* the handler that ran last

appVars      == <<appStatus, activeTab>>
costVars     == <<costs, edits>>
convVars     == <<convGrains, convGrams>>
otherVars    == <<otherStatus, otherLoads>>
loadVars     == <<loads, newLoad, storage, nextId, retiredIds>>
tabState     == <<selectedImage, isAnalyzing, result, error, bulletDiameter, expectedShots>>
analysisVars == <<tabState, reads, requests>>
vars == <<appVars, costVars, convVars, loadVars, otherVars, analysisVars, lastEvent>>

Event(op, img) == [op |-> op, image |-> img]

DefaultCosts ==
    [powderPrice |-> 85, powderWeight |-> 1, powderCharge |-> 42,
     primerPrice |-> 65, primerCount |-> 1000,
     bulletPrice |-> 35, bulletCount |-> 100,
     brassPrice |-> 45, brassCount |-> 50, brassLife |-> 5]

Init ==
    /\ appStatus = "starting"
    /\ activeTab = "costs"
    /\ costs = DefaultCosts
    /\ edits = 0
    /\ convGrains = Decimal(FALSE, 1543, 2)
    /\ convGrams = Decimal(FALSE, 100, 2)
    /\ loads = JArray(<< >>)
    /\ newLoad = EmptyForm
    /\ storage \in StoredContents
    /\ nextId = MaxStored + 1
    /\ retiredIds = {}
    /\ otherStatus = "starting"
    /\ otherLoads = JArray(<< >>)
    /\ selectedImage = NoImage
    /\ isAnalyzing = FALSE
    /\ result = NoResult
    /\ error = NoError
    /\ bulletDiameter = "7.62"
    /\ expectedShots = "5"
    /\ reads = EmptyBag
    /\ requests = EmptyBag
    /\ lastEvent = Event("none", NoImage)

(***************************************************************************)
(* App: startup effect, rendering, tab switch                              *)
(***************************************************************************)
\* useEffect(() => {...}, []): runs once after the first render
StartupLoad ==
    /\ appStatus = "starting"
    /\ IF ~Truthy(storage)
         THEN /\ appStatus' = "running"
              /\ loads' = loads
         ELSE IF JSONparseThrows(storage)
                THEN /\ appStatus' = "crashed"
                     /\ loads' = loads
                ELSE /\ appStatus' = "running"
                     /\ loads' = JSONparse(storage)
    /\ lastEvent' = Event("startup", NoImage)
    /\ UNCHANGED <<otherVars, activeTab, costVars, convVars, newLoad, storage, nextId, retiredIds,
                   analysisVars>>

\* the list a startup load puts in memory for an item it can read
Reloaded(item) == IF Truthy(item) THEN JSONparse(item) ELSE JArray(<< >>)

\* the render of the tab body throws: loads.map on a value without map,
\* result.groupSizeMm.toFixed on a result without groupSizeMm
RenderThrows(tab, lds, res) ==
    \/ tab = "loads" /\ lds.type # "array"
    \/ tab = "analysis" /\ res # NoResult /\ res.shape \in {"partial", "empty"}

\* a callback whose component has been unmounted
Orphan(x) == [x EXCEPT !.mounted = FALSE]

\* the bag B after the component that started its entries was unmounted
Orphaned(B) ==
    [e \in {Orphan(x) : x \in DOMAIN B} |->
        (IF e \in DOMAIN B THEN B[e] ELSE 0)
      + (IF [e EXCEPT !.mounted = TRUE] \in DOMAIN B
           THEN B[[e EXCEPT !.mounted = TRUE]] ELSE 0)]

\* nav button: setActiveTab(tab.id); {activeTab === 'analysis' && <AnalysisTab />}
\* mounts a fresh AnalysisTab on entering the tab and unmounts it on leaving
SetActiveTab(t) ==
    /\ appStatus = "running"
    /\ activeTab' = t
    /\ IF activeTab = "analysis" /\ t # "analysis"
         THEN /\ reads' = EmptyBag
              /\ requests' = Orphaned(requests)
         ELSE UNCHANGED <<reads, requests>>
    /\ IF (t = "analysis") # (activeTab = "analysis")
         THEN /\ selectedImage' = NoImage
              /\ isAnalyzing' = FALSE
              /\ result' = NoResult
              /\ error' = NoError
              /\ bulletDiameter' = "7.62"
              /\ expectedShots' = "5"
         ELSE UNCHANGED tabState
    /\ appStatus' = IF RenderThrows(t, loads, result') THEN "crashed" ELSE "running"
    /\ lastEvent' = Event("setActiveTab", NoImage)
    /\ UNCHANGED <<otherVars, costVars, convVars, loadVars>>

(***************************************************************************)
(* Load manager                                                            *)
(***************************************************************************)
\* a saveLoads that only sets the state
saveLoadsInMemory(updatedLoads) ==
    /\ loads' = JArray(updatedLoads)
    /\ storage' = storage

\* saveLoads: setLoads(updatedLoads); localStorage.setItem(key, JSON.stringify(updatedLoads))
saveLoads(updatedLoads) ==
    /\ loads' = JArray(updatedLoads)
    /\ storage' = JSONstringify(JArray(updatedLoads))

\* onChange of a text field of the form: setNewLoad({...newLoad, f: e.target.value})
SetNewLoadText(f, text) ==
    /\ appStatus = "running" /\ activeTab = "loads"
    /\ newLoad' = [newLoad EXCEPT ![f] = text]
    /\ lastEvent' = Event("setNewLoad", NoImage)
    /\ UNCHANGED <<otherVars, appVars, costVars, convVars, loads, storage, nextId, retiredIds,
                   analysisVars>>

\* onChange of a number field: setNewLoad({...newLoad, f: parseFloat(e.target.value) || 0})
SetNewLoadNumber(f, text) ==
    /\ appStatus = "running" /\ activeTab = "loads"
    /\ newLoad' = [newLoad EXCEPT ![f] = OrElse(parseFloat(text), 0)]
    /\ lastEvent' = Event("setNewLoad", NoImage)
    /\ UNCHANGED <<otherVars, appVars, costVars, convVars, loads, storage, nextId, retiredIds,
                   analysisVars>>

\* a guard that forgets the caliber
FormValidNameOnly(form) == form.name # ""

\* if (newLoad.name && newLoad.caliber)
FormValid(form) == form.name # "" /\ form.caliber # ""

\* disabled={!newLoad.name || !newLoad.caliber}
SaveDisabled == newLoad.name = "" \/ newLoad.caliber = ""

\* an id taken from the length of the list
idFromLength == Len(loads.items) + 1

\* crypto.randomUUID(): an id no record has been given before
randomUUID == nextId

\* the record addLoad builds from the form
NewRecord(form, id) ==
    [id |-> id, name |-> form.name, caliber |-> form.caliber,
     bulletWeight |-> form.bulletWeight, powderType |-> form.powderType,
     powderCharge |-> form.powderCharge, primerType |-> form.primerType,
     date |-> Today]

\* addLoad that appends the record instead of prepending it
addLoadAppends ==
    /\ appStatus = "running" /\ activeTab = "loads"
    /\ IF FormValid(newLoad)
         THEN /\ nextId <= MaxStored + MaxAdds
              /\ saveLoads(loads.items \o <<NewRecord(newLoad, randomUUID)>>)
              /\ nextId' = nextId + 1
              /\ newLoad' = EmptyForm
         ELSE UNCHANGED <<loads, storage, nextId, newLoad>>
    /\ lastEvent' = Event("addLoad", NoImage)
    /\ UNCHANGED <<otherVars, appVars, costVars, convVars, retiredIds, analysisVars>>

addLoad ==
    /\ appStatus = "running" /\ activeTab = "loads"
    /\ IF FormValid(newLoad)
         THEN /\ nextId <= MaxStored + MaxAdds
              /\ saveLoads(<<NewRecord(newLoad, randomUUID)>> \o loads.items)
              /\ nextId' = nextId + 1
              /\ newLoad' = EmptyForm
         ELSE UNCHANGED <<loads, storage, nextId, newLoad>>
    /\ lastEvent' = Event("addLoad", NoImage)
    /\ UNCHANGED <<otherVars, appVars, costVars, convVars, retiredIds, analysisVars>>

\* a filter that stops at the first entry it removes
RECURSIVE FilterUpToId(_, _)
FilterUpToId(s, id) ==
    IF s = << >> THEN << >>
    ELSE IF Head(s).id # id
           THEN <<Head(s)>> \o FilterUpToId(Tail(s), id)
           ELSE << >>

\* loads.filter(l => l.id !== id)
RECURSIVE FilterOutId(_, _)
FilterOutId(s, id) ==
    IF s = << >> THEN << >>
    ELSE IF Head(s).id # id
           THEN <<Head(s)>> \o FilterOutId(Tail(s), id)
           ELSE FilterOutId(Tail(s), id)

\* trash button of a list entry: deleteLoad(load.id)
deleteLoad(id) ==
    /\ appStatus = "running" /\ activeTab = "loads"
    /\ \E k \in 1..Len(loads.items) : loads.items[k].id = id
    /\ saveLoads(FilterOutId(loads.items, id))
    /\ retiredIds' = retiredIds \cup {id}
    /\ lastEvent' = Event("deleteLoad", NoImage)
    /\ UNCHANGED <<otherVars, appVars, costVars, convVars, newLoad, nextId, analysisVars>>

\* the texts typed into the form: name and caliber are set and cleared, one
\* optional text and one optional number are set and cleared, the other two
\* optional fields are left empty
TextInputs(f) == IF f = "primerType" THEN {""}
                 ELSE IF f = "powderType" THEN {"", "N140"} ELSE {"", "x"}
NumInputs(f)  == IF f = "powderCharge" THEN {""} ELSE {"", "168"}

NextLoads ==
    \/ StartupLoad
    \/ \E t \in Tabs \ {"analysis"} : SetActiveTab(t)
    \/ \E f \in TextFields : \E text \in TextInputs(f) : SetNewLoadText(f, text)
    \/ \E f \in NumFields : \E text \in NumInputs(f) : SetNewLoadNumber(f, text)
    \/ addLoad
    \/ \E id \in 1..(MaxStored + MaxAdds) : deleteLoad(id)

SpecLoads == Init /\ [][NextLoads]_vars

(***************************************************************************)
(* A second browser tab running the same App on the same localStorage key  *)
(***************************************************************************)
\* the startup effect of the second tab
OtherStartupLoad ==
    /\ otherStatus = "starting"
    /\ IF ~Truthy(storage)
         THEN /\ otherStatus' = "running"
              /\ otherLoads' = otherLoads
         ELSE IF JSONparseThrows(storage)
                THEN /\ otherStatus' = "crashed"
                     /\ otherLoads' = otherLoads
                ELSE /\ otherStatus' = "running"
                     /\ otherLoads' = JSONparse(storage)
    /\ lastEvent' = Event("otherStartup", NoImage)
    /\ UNCHANGED <<appVars, costVars, convVars, loadVars, analysisVars>>

\* saveLoads of the second tab
otherSaveLoads(updatedLoads) ==
    /\ otherLoads' = JArray(updatedLoads)
    /\ storage' = JSONstringify(JArray(updatedLoads))

\* the form of the second tab when its save button is pressed: name and caliber set
OtherForm == [EmptyForm EXCEPT !.name = "x", !.caliber = "x"]

\* addLoad of the second tab
OtherAddLoad ==
    /\ otherStatus = "running" /\ otherLoads.type = "array"
    /\ nextId <= MaxStored + MaxAdds
    /\ otherSaveLoads(<<NewRecord(OtherForm, randomUUID)>> \o otherLoads.items)
    /\ nextId' = nextId + 1
    /\ lastEvent' = Event("otherAddLoad", NoImage)
    /\ UNCHANGED <<appVars, costVars, convVars, loads, newLoad, retiredIds,
                   otherStatus, analysisVars>>

\* a deleteLoad that filters the list found in storage
OtherDeleteLoadOfStored(id) ==
    /\ otherStatus = "running"
    /\ \E k \in 1..Len(otherLoads.items) : otherLoads.items[k].id = id
    /\ otherSaveLoads(FilterOutId(Reloaded(storage).items, id))
    /\ lastEvent' = Event("otherDeleteLoad", NoImage)
    /\ UNCHANGED <<appVars, costVars, convVars, loads, newLoad, nextId, retiredIds,
                   otherStatus, analysisVars>>

\* deleteLoad of the second tab
OtherDeleteLoad(id) ==
    /\ otherStatus = "running"
    /\ \E k \in 1..Len(otherLoads.items) : otherLoads.items[k].id = id
    /\ otherSaveLoads(FilterOutId(otherLoads.items, id))
    /\ lastEvent' = Event("otherDeleteLoad", NoImage)
    /\ UNCHANGED <<appVars, costVars, convVars, loads, newLoad, nextId, retiredIds,
                   otherStatus, analysisVars>>

\* both tabs: startup loads, the load form of the first tab, add and delete in both
NextTabs ==
    \/ StartupLoad
    \/ \E t \in {"costs", "loads"} : SetActiveTab(t)
    \/ \E f \in {"name", "caliber"} : SetNewLoadText(f, "x")
    \/ addLoad
    \/ \E id \in 1..(MaxStored + MaxAdds) : deleteLoad(id)
    \/ OtherStartupLoad
    \/ OtherAddLoad
    \/ \E id \in 1..(MaxStored + MaxAdds) : OtherDeleteLoad(id)

\* the list of MaxStored records is in storage when the tabs open
InitTabs ==
    /\ Init
    /\ storage = JSONstringify(JArray([k \in 1..MaxStored |-> StoredRecord(k)]))

SpecTabs == InitTabs /\ [][NextTabs]_vars

(***************************************************************************)
(* AnalysisTab                                                             *)
(***************************************************************************)
\* onChange={e => setBulletDiameter(e.target.value)}
SetBulletDiameter(text) ==
    /\ appStatus = "running" /\ activeTab = "analysis"
    /\ bulletDiameter' = text
    /\ lastEvent' = Event("setBulletDiameter", NoImage)
    /\ UNCHANGED <<otherVars, appVars, costVars, convVars, loadVars, selectedImage, isAnalyzing,
                   result, error, expectedShots, reads, requests>>

\* onChange={e => setExpectedShots(e.target.value)}
SetExpectedShots(text) ==
    /\ appStatus = "running" /\ activeTab = "analysis"
    /\ expectedShots' = text
    /\ lastEvent' = Event("setExpectedShots", NoImage)
    /\ UNCHANGED <<otherVars, appVars, costVars, convVars, loadVars, selectedImage, isAnalyzing,
                   result, error, bulletDiameter, reads, requests>>

\* the file input is rendered only while no image is selected ({!selectedImage ? ...});
\* handleImageUpload starts a FileReader read and returns
handleImageUpload(f) ==
    /\ appStatus = "running" /\ activeTab = "analysis"
    /\ selectedImage = NoImage
    /\ BagCardinality(reads) < MaxReads
    /\ reads' = reads (+) SetToBag({f})
    /\ lastEvent' = Event("handleImageUpload", NoImage)
    /\ UNCHANGED <<otherVars, appVars, costVars, convVars, loadVars, tabState, requests>>

\* reader.onloadend: reader.result is the data URL, or null when the read failed
ReaderLoadEnd(f, ok) ==
    /\ appStatus = "running"
    /\ BagIn(f, reads)
    /\ reads' = reads (-) SetToBag({f})
    /\ selectedImage' = IF ok THEN DataURL(f) ELSE NoImage
    /\ result' = NoResult
    /\ error' = NoError
    /\ lastEvent' = Event("onloadend", NoImage)
    /\ UNCHANGED <<otherVars, appVars, costVars, convVars, loadVars, isAnalyzing,
                   bulletDiameter, expectedShots, requests>>

\* the call handed to ai.models.generateContent: the image and the prompt parameters
Request(img, diameter, shots) ==
    [mounted |-> TRUE, image |-> img, bulletDiameter |-> diameter, expectedShots |-> shots]

\* the analyse button (rendered with the image, disabled={isAnalyzing}) runs
\* analyzeImage up to its await
analyzeImage ==
    /\ appStatus = "running" /\ activeTab = "analysis"
    /\ selectedImage # NoImage
    /\ ~isAnalyzing
    /\ BagCardinality(requests) < MaxRequests
    /\ isAnalyzing' = TRUE
    /\ error' = NoError
    /\ requests' = requests (+) SetToBag({Request(selectedImage, bulletDiameter, expectedShots)})
    /\ lastEvent' = Event("analyzeImage", selectedImage)
    /\ UNCHANGED <<otherVars, appVars, costVars, convVars, loadVars, selectedImage, result,
                   bulletDiameter, expectedShots, reads>>

\* JSON.parse(response.text || '{}')
ParsedResponse(q, text) ==
    [forImage |-> q.image, shape |-> text]

\* a resolve handler that also files the analysed image as a load record
AnalyzeResolveSaves(q, text) ==
    /\ appStatus = "running"
    /\ BagIn(q, requests)
    /\ requests' = requests (-) SetToBag({q})
    /\ IF q.mounted
         THEN /\ isAnalyzing' = FALSE
              /\ IF text = "garbage"
                   THEN /\ error' = ErrorMessage
                        /\ result' = result
                   ELSE /\ result' = ParsedResponse(q, text)
                        /\ error' = error
         ELSE UNCHANGED <<isAnalyzing, result, error>>
    /\ saveLoads(<<StoredRecord(q.image)>> \o loads.items)
    /\ appStatus' = IF RenderThrows(activeTab, loads, result') THEN "crashed" ELSE "running"
    /\ lastEvent' = Event(IF text = "garbage" THEN "analyzeFail" ELSE "analyzeSuccess", q.image)
    /\ UNCHANGED <<otherVars, activeTab, costVars, convVars, newLoad, nextId, retiredIds, selectedImage,
                   bulletDiameter, expectedShots, reads>>

\* the promise resolves: try { JSON.parse; setResult } catch { setError } finally { setIsAnalyzing(false) }
AnalyzeResolve(q, text) ==
    /\ appStatus = "running"
    /\ BagIn(q, requests)
    /\ requests' = requests (-) SetToBag({q})
    /\ IF q.mounted
         THEN /\ isAnalyzing' = FALSE
              /\ IF text = "garbage"
                   THEN /\ error' = ErrorMessage
                        /\ result' = result
                   ELSE /\ result' = ParsedResponse(q, text)
                        /\ error' = error
         ELSE UNCHANGED <<isAnalyzing, result, error>>
    /\ appStatus' = IF RenderThrows(activeTab, loads, result') THEN "crashed" ELSE "running"
    /\ lastEvent' = Event(IF text = "garbage" THEN "analyzeFail" ELSE "analyzeSuccess", q.image)
    /\ UNCHANGED <<otherVars, activeTab, costVars, convVars, loadVars, selectedImage,
                   bulletDiameter, expectedShots, reads>>

\* a catch block that sends the request once more
AnalyzeRejectRetries(q) ==
    /\ appStatus = "running"
    /\ BagIn(q, requests)
    /\ requests' = requests
    /\ IF q.mounted
         THEN /\ isAnalyzing' = TRUE
              /\ error' = ErrorMessage
         ELSE UNCHANGED <<isAnalyzing, error>>
    /\ lastEvent' = Event("analyzeFail", q.image)
    /\ UNCHANGED <<otherVars, appVars, costVars, convVars, loadVars, selectedImage, result,
                   bulletDiameter, expectedShots, reads>>

\* the promise rejects: catch { setError } finally { setIsAnalyzing(false) }
AnalyzeReject(q) ==
    /\ appStatus = "running"
    /\ BagIn(q, requests)
    /\ requests' = requests (-) SetToBag({q})
    /\ IF q.mounted
         THEN /\ isAnalyzing' = FALSE
              /\ error' = ErrorMessage
         ELSE UNCHANGED <<isAnalyzing, error>>
    /\ lastEvent' = Event("analyzeFail", q.image)
    /\ UNCHANGED <<otherVars, appVars, costVars, convVars, loadVars, selectedImage, result,
                   bulletDiameter, expectedShots, reads>>

\* the discard button (rendered with the image, disabled={isAnalyzing}):
\* onClick={() => setSelectedImage(null)}
DiscardImage ==
    /\ appStatus = "running" /\ activeTab = "analysis"
    /\ selectedImage # NoImage
    /\ ~isAnalyzing
    /\ selectedImage' = NoImage
    /\ lastEvent' = Event("discard", NoImage)
    /\ UNCHANGED <<otherVars, appVars, costVars, convVars, loadVars, isAnalyzing, result, error,
                   bulletDiameter, expectedShots, reads, requests>>

DiameterInputs == {"7.62"}
ShotInputs     == {"3"}

AllRequests == [mounted : BOOLEAN, image : Files,
                bulletDiameter : DiameterInputs \cup {"7.62"},
                expectedShots : ShotInputs \cup {"5"}]

\* a step of the image-analysis flow
AnalysisStep ==
    \/ \E f \in Files : handleImageUpload(f)
    \/ \E f \in Files, ok \in BOOLEAN : ReaderLoadEnd(f, ok)
    \/ analyzeImage
    \/ \E q \in AllRequests, text \in ResponseTexts : AnalyzeResolve(q, text)
    \/ \E q \in AllRequests : AnalyzeReject(q)
    \/ DiscardImage

NextAnalysis ==
    \/ StartupLoad
    \/ \E t \in Tabs : SetActiveTab(t)
    \/ \E text \in DiameterInputs : SetBulletDiameter(text)
    \/ \E text \in ShotInputs : SetExpectedShots(text)
    \/ AnalysisStep

\* the analysis flow is followed from a startup that finds a list of records
InitAnalysis ==
    /\ Init
    /\ storage = JSONstringify(JArray([k \in 1..MaxStored |-> StoredRecord(k)]))

SpecAnalysis == InitAnalysis /\ [][NextAnalysis]_vars

(***************************************************************************)
(* Cost form                                                               *)
(***************************************************************************)
CostFields ==
    {"powderPrice", "powderWeight", "powderCharge", "primerPrice", "primerCount",
     "bulletPrice", "bulletCount", "brassPrice", "brassCount", "brassLife"}

\* the fields calculatedCosts divides by
Denominators == {"powderWeight", "primerCount", "bulletCount", "brassCount", "brassLife"}

\* The numbers of the cost calculation, kept exact.  A fraction n/d is in
\* lowest terms with d > 0; d = 0 stands for a non-finite number (Infinity,
\* -Infinity or NaN), which every operation hands on.
RECURSIVE GCD(_, _)
GCD(a, b) == IF b = 0 THEN a ELSE GCD(b, a % b)

Abs(n) == IF n < 0 THEN -n ELSE n

NonFinite == [n |-> 0, d |-> 0]

Frac(n, d) ==
    IF d = 0 THEN NonFinite
    ELSE LET g == GCD(Abs(n), Abs(d))
             s == IF d < 0 THEN -1 ELSE 1
         IN  [n |-> s * (n \div g), d |-> s * (d \div g)]

FAdd(a, b) == IF a.d = 0 \/ b.d = 0 THEN NonFinite
              ELSE Frac(a.n * b.d + b.n * a.d, a.d * b.d)
FMul(a, b) == IF a.d = 0 \/ b.d = 0 THEN NonFinite
              ELSE Frac(a.n * b.n, a.d * b.d)
FDiv(a, b) == IF a.d = 0 \/ b.d = 0 \/ b.n = 0 THEN NonFinite
              ELSE Frac(a.n * b.d, a.d * b.n)

\* An amount of money is r + g / GRAINS_PER_KG with fractions r and g: the
\* constant 15432.3584 divides the powder term only and is kept as a unit.
Plain(x)  == [r |-> Frac(x, 1), g |-> Frac(0, 1)]
Add(a, b) == [r |-> FAdd(a.r, b.r), g |-> FAdd(a.g, b.g)]
\* a * b and a / b for a b without a GRAINS_PER_KG part
Mul(a, b) == [r |-> FMul(a.r, b.r), g |-> FMul(a.g, b.r)]
Div(a, b) == [r |-> FDiv(a.r, b.r), g |-> FDiv(a.g, b.r)]
\* a / GRAINS_PER_KG for an a without a GRAINS_PER_KG part
PerGrainsPerKg(a) == [r |-> Frac(0, 1), g |-> a.r]

Finite(a) == a.r.d # 0 /\ a.g.d # 0

\* a brass term that forgets the reuse count
brassCostPerCase(c) == Div(Plain(c.brassPrice), Plain(c.brassCount))

brassCost(c) ==
    Div(Div(Plain(c.brassPrice), Plain(c.brassCount)), Plain(c.brassLife))

\* the useMemo value computed from the cost state at every render
calculatedCosts(c) ==
    LET powderCostPerGrain ==
            PerGrainsPerKg(Div(Plain(c.powderPrice), Plain(c.powderWeight)))
        powderCost == Mul(powderCostPerGrain, Plain(c.powderCharge))
        primerCost == Div(Plain(c.primerPrice), Plain(c.primerCount))
        bulletCost == Div(Plain(c.bulletPrice), Plain(c.bulletCount))
        total == Add(Add(Add(powderCost, primerCost), bulletCost), brassCost(c))
    IN  [powder |-> powderCost, primer |-> primerCost, bullet |-> bulletCost,
         brass |-> brassCost(c), total |-> total,
         per100 |-> Mul(total, Plain(100))]

\* a form whose fields all fall back to 1
FallbackAlwaysOne(f) == 1

\* the value after `||` in the field's onChange: 1 for brassLife, 0 for the others
Fallback(f) == IF f = "brassLife" THEN 1 ELSE 0

\* onChange={e => setCosts({...costs, f: parseFloat(e.target.value) || fallback})}
SetCost(f, text) ==
    /\ appStatus = "running" /\ activeTab = "costs"
    /\ edits < MaxEdits
    /\ edits' = edits + 1
    /\ costs' = [costs EXCEPT ![f] = OrElse(parseFloat(text), Fallback(f))]
    /\ lastEvent' = Event("setCosts", NoImage)
    /\ UNCHANGED <<otherVars, appVars, convVars, loadVars, analysisVars>>

\* the "Zuruecksetzen" button: setCosts({...the initial values...})
ResetCosts ==
    /\ appStatus = "running" /\ activeTab = "costs"
    /\ costs' = DefaultCosts
    /\ lastEvent' = Event("resetCosts", NoImage)
    /\ UNCHANGED <<otherVars, appVars, edits, convVars, loadVars, analysisVars>>

CostInputs == {"", "abc", "0", "-2", "3"}

NextCosts ==
    \/ StartupLoad
    \/ \E t \in Tabs \ {"analysis"} : SetActiveTab(t)
    \/ \E f \in CostFields, text \in CostInputs : SetCost(f, text)
    \/ ResetCosts

InitCosts == Init /\ storage = NoItem

SpecCosts == InitCosts /\ [][NextCosts]_vars

(***************************************************************************)
(* Unit converter                                                          *)
(***************************************************************************)
GRAINS_PER_GRAM == 154323584   \* 15.4323584 in units of 0.0000001

\* quotient and remainder of x * p by q for x >= 0, p < 2^29, q < 2^29,
\* without a product beyond 32 bits
RECURSIVE MulDivMod(_, _, _)
MulDivMod(x, p, q) ==
    IF x = 0 THEN [quo |-> 0, rem |-> 0]
    ELSE LET h == MulDivMod(x \div 2, p, q)
             t == 2 * h.rem + (x % 2) * (p % q)
         IN  [quo |-> 2 * h.quo + (x % 2) * (p \div q) + t \div q, rem |-> t % q]

\* a toFixed that cuts the digits off
toFixedTruncates(x, p, q, digits) ==
    LET Q == q * Pow10(4 - digits)
        g == GCD(p, Q)
    IN  Decimal(x < 0, MulDivMod(Abs(x), p \div g, Q \div g).quo, digits)

\* (x * p / q).toFixed(digits) for x in units of 0.0001: the numeral with
\* that many decimals nearest to the number, a tie rounding away from zero
toFixed(x, p, q, digits) ==
    LET Q == q * Pow10(4 - digits)
        g == GCD(p, Q)
        m == MulDivMod(Abs(x), p \div g, Q \div g)
    IN  Decimal(x < 0, m.quo + (IF 2 * m.rem >= Q \div g THEN 1 ELSE 0), digits)

handleGrainsChange(val) ==
    /\ appStatus = "running" /\ activeTab = "converter"
    /\ convGrains' = val
    /\ LET num == parseFloatE4(val)
       IN  convGrams' = IF num.nan THEN convGrams
                        ELSE toFixed(num.num, Pow10(7), GRAINS_PER_GRAM, 4)
    /\ lastEvent' = Event("handleGrainsChange", NoImage)
    /\ UNCHANGED <<otherVars, appVars, costVars, loadVars, analysisVars>>

handleGramsChange(val) ==
    /\ appStatus = "running" /\ activeTab = "converter"
    /\ convGrams' = val
    /\ LET num == parseFloatE4(val)
       IN  convGrains' = IF num.nan THEN convGrains
                         ELSE toFixed(num.num, GRAINS_PER_GRAM, Pow10(7), 2)
    /\ lastEvent' = Event("handleGramsChange", NoImage)
    /\ UNCHANGED <<otherVars, appVars, costVars, loadVars, analysisVars>>

\* typed values in units of 0.0001: just above 0, from 1 and from 15.43 upwards
TypedE4 ==
    (1..MaxTyped) \cup {10000 + k : k \in 0..MaxTyped}
                  \cup {154300 + k : k \in 0..MaxTyped}

ConverterInputs ==
    {EmptyInput, GarbageInput, Decimal(FALSE, 1543, 2), Decimal(FALSE, 15, 1),
     Decimal(TRUE, 25, 1)} \cup {Decimal(FALSE, v, 4) : v \in TypedE4}

\* the user types a text, or types the text a field shows once more
NextConverter ==
    \/ StartupLoad
    \/ \E t \in {"costs", "converter"} : SetActiveTab(t)
    \/ \E val \in ConverterInputs \cup {convGrains} : handleGrainsChange(val)
    \/ \E val \in ConverterInputs \cup {convGrams} : handleGramsChange(val)

InitConverter == Init /\ storage = NoItem

SpecConverter == InitConverter /\ [][NextConverter]_vars

\* C10: after any sequence of edits to the cost form every denominator of
\* the cost formulas (powderWeight, primerCount, bulletCount, brassCount,
\* brassLife) is greater than 0.
C10_DenominatorsPositive ==
    \A f \in Denominators : costs[f] > 0

\* the texts of an edit that is empty or not a number
NotANumber == {"", "abc"}

\* C11 as claimed: for each of the ten cost fields, an edit whose text is
\* empty or not a number stores 0 in that field.
C11_InvalidEditStoresZero ==
    [][\A f \in CostFields : \A text \in NotANumber :
          SetCost(f, text) => costs'[f] = 0]_vars

\* C11: an edit whose text is empty or not a number stores 0 in the edited
\* field for the nine fields other than brassLife, and 1 for brassLife.
C11_InvalidEditStoresFallback ==
    [][\A f \in CostFields : \A text \in NotANumber :
          SetCost(f, text) => costs'[f] = IF f = "brassLife" THEN 1 ELSE 0]_vars

\* edits have left 0 in a price and in a count, and 1 in brassLife
C11_Witness ==
    /\ lastEvent.op = "setCosts"
    /\ costs.powderPrice = 0
    /\ costs.primerCount = 0
    /\ costs.brassLife = 1

\* n/d is the quotient p/q
IsQuotient(x, p, q) == x.d > 0 /\ x.n * q = p * x.d

\* C12: with positive denominators the breakdown is
\* powder = ((powderPrice / powderWeight) / GRAINS_PER_KG) * powderCharge,
\* primer = primerPrice / primerCount, bullet = bulletPrice / bulletCount,
\* brass = (brassPrice / brassCount) / brassLife, total is the sum of the
\* four and per100 is total * 100.
C12_Breakdown ==
    (\A f \in Denominators : costs[f] > 0) =>
        LET b == calculatedCosts(costs)
        IN  /\ b.powder.r = Frac(0, 1)
            /\ IsQuotient(b.powder.g, costs.powderPrice * costs.powderCharge,
                           costs.powderWeight)
            /\ b.primer.g = Frac(0, 1)
            /\ IsQuotient(b.primer.r, costs.primerPrice, costs.primerCount)
            /\ b.bullet.g = Frac(0, 1)
            /\ IsQuotient(b.bullet.r, costs.bulletPrice, costs.bulletCount)
            /\ b.brass.g = Frac(0, 1)
            /\ IsQuotient(b.brass.r, costs.brassPrice,
                           costs.brassCount * costs.brassLife)
            /\ b.total = Add(Add(Add(b.powder, b.primer), b.bullet), b.brass)
            /\ b.per100.r.n * b.total.r.d = 100 * b.total.r.n * b.per100.r.d
            /\ b.per100.g.n * b.total.g.d = 100 * b.total.g.n * b.per100.g.d
            /\ Finite(b.per100)

\* edited prices, counts and reuse count with all denominators positive
C12_Witness ==
    /\ lastEvent.op = "setCosts"
    /\ \A f \in Denominators : costs[f] > 0
    /\ costs.brassLife = 3
    /\ costs.brassCount = 3
    /\ costs.powderCharge = 3
    /\ calculatedCosts(costs).total # calculatedCosts(DefaultCosts).total

\* the number a decimal text denotes, in units of 0.0001
ValueE4(text) == (IF text.neg THEN -1 ELSE 1) * text.val * Pow10(4 - text.dp)

\* text is the numeral with `digits` decimals nearest to x * p / q
IsConversion(text, x, p, q, digits) ==
    LET Q == q * Pow10(4 - digits)
        g == GCD(p, Q)
        m == MulDivMod(Abs(x), p \div g, Q \div g)
    IN  /\ text.kind = "decimal" /\ text.dp = digits /\ text.neg = (x < 0)
        /\ \/ text.val = m.quo /\ 2 * m.rem < Q \div g
           \/ text.val = m.quo + 1 /\ 2 * m.rem >= Q \div g

\* C13: an edit of a converter field leaves the raw text in the edited
\* field; a text that does not parse leaves the other field as it was, a
\* text that parses sets the other field to the conversion (grams = grains /
\* GRAINS_PER_GRAM with 4 decimals, grains = grams * GRAINS_PER_GRAM with 2).
C13_ConverterEdit ==
    [][/\ \A val \in ConverterInputs \cup {convGrains} :
            handleGrainsChange(val) =>
                /\ convGrains' = val
                /\ IF val.kind # "decimal" THEN convGrams' = convGrams
                   ELSE IsConversion(convGrams', ValueE4(val),
                                     Pow10(7), GRAINS_PER_GRAM, 4)
       /\ \A val \in ConverterInputs \cup {convGrams} :
            handleGramsChange(val) =>
                /\ convGrams' = val
                /\ IF val.kind # "decimal" THEN convGrains' = convGrains
                   ELSE IsConversion(convGrains', ValueE4(val),
                                     GRAINS_PER_GRAM, Pow10(7), 2)]_vars

\* the grams field was emptied and the grains field still shows the
\* conversion of the grams typed before
C13_Witness ==
    /\ lastEvent.op = "handleGramsChange"
    /\ convGrams = EmptyInput
    /\ convGrains = Decimal(FALSE, 1545, 2)

Positive(text) == text.kind = "decimal" /\ ~text.neg /\ text.val > 0

\* what the other handler would show for the text a field shows
GramsShownFor(text) == toFixed(parseFloatE4(text).num, Pow10(7), GRAINS_PER_GRAM, 4)
GrainsShownFor(text) == toFixed(parseFloatE4(text).num, GRAINS_PER_GRAM, Pow10(7), 2)

\* distance between a typed text and the text coming back, in units of 0.0001
RoundTripError(typed, back) == Abs(ValueE4(back) - ValueE4(typed))

\* C14 as claimed: grains -> grams -> grains comes back within 0.01 grains
\* and grams -> grains -> grams within 0.0001 grams.
C14_RoundTripClaimed ==
    /\ lastEvent.op = "handleGrainsChange" /\ Positive(convGrains)
          => RoundTripError(convGrains, GrainsShownFor(convGrams)) <= 100
    /\ lastEvent.op = "handleGramsChange" /\ Positive(convGrams)
          => RoundTripError(convGrams, GramsShownFor(convGrains)) <= 1

\* C14: grains -> grams -> grains comes back within 0.01 grains and
\* grams -> grains -> grams within 0.0004 grams.
C14_RoundTrip ==
    /\ lastEvent.op = "handleGrainsChange" /\ Positive(convGrains)
          => RoundTripError(convGrains, GrainsShownFor(convGrams)) <= 100
    /\ lastEvent.op = "handleGramsChange" /\ Positive(convGrams)
          => RoundTripError(convGrams, GramsShownFor(convGrains)) <= 4

\* typed grams whose way through the grains field comes back 0.0003 off
C14_Witness ==
    /\ lastEvent.op = "handleGramsChange" /\ Positive(convGrams)
    /\ RoundTripError(convGrams, GramsShownFor(convGrains)) = 3

(***************************************************************************)
(* Load manager: properties                                                *)
(***************************************************************************)
\* the stored item is the JSON text of a list
StoredIsList(item) == item.present /\ item.syntax = "json" /\ item.value.type = "array"

\* C5: at startup, whatever the key 'reloading_loads' holds, loading does not
\* end in a fatal error, and an absent or malformed value (empty text, text
\* that is not JSON, JSON that is not a list) leaves the load list empty.
C5_StartupNeverFatal ==
    lastEvent.op = "startup" =>
        /\ appStatus # "crashed"
        /\ ~StoredIsList(storage) => loads = JArray(<< >>)

\* C6: addLoad called while the form's name or caliber is empty changes
\* neither the load list nor the persisted list nor the form.
C6_InvalidAddChangesNothing ==
    [][(addLoad /\ (newLoad.name = "" \/ newLoad.caliber = ""))
          => UNCHANGED <<loads, storage, newLoad>>]_vars

\* addLoad has run on a form with a caliber but no name, with a list to lose
C6_Witness ==
    /\ lastEvent.op = "addLoad"
    /\ newLoad.name = "" /\ newLoad.caliber # ""
    /\ Len(loads.items) > 0

\* C7: addLoad with non-empty name and caliber puts the new record first,
\* keeps the previous list behind it in the same order, and the persisted
\* value is the new list when the handler returns.
C7_ValidAddPrepends ==
    [][(addLoad /\ newLoad.name # "" /\ newLoad.caliber # "")
          => /\ loads'.type = "array"
             /\ Len(loads'.items) = Len(loads.items) + 1
             /\ Head(loads'.items).name = newLoad.name
             /\ Head(loads'.items).caliber = newLoad.caliber
             /\ \A k \in 1..Len(loads.items) : Head(loads'.items).id # loads.items[k].id
             /\ Tail(loads'.items) = loads.items
             /\ ~JSONparseThrows(storage')
             /\ JSONparse(storage') = loads']_vars

\* a record was added in front of a list of two
C7_Witness ==
    /\ lastEvent.op = "addLoad"
    /\ Len(loads.items) = MaxStored + 1
    /\ loads.items[1].id > MaxStored
    /\ loads.items[2].id # loads.items[3].id

\* the list without its k-th entry
RemoveAt(s, k) == SubSeq(s, 1, k - 1) \o SubSeq(s, k + 1, Len(s))

\* C8: deleteLoad(id) removes exactly one entry, the one with that id, and
\* keeps the other entries in their order, for every list reachable from the
\* startup load by add and delete.
C8_DeleteRemovesExactlyOne ==
    [][\A id \in 1..(MaxStored + MaxAdds) :
          deleteLoad(id) =>
              \E k \in 1..Len(loads.items) :
                  /\ loads.items[k].id = id
                  /\ loads'.items = RemoveAt(loads.items, k)
                  /\ \A j \in 1..Len(loads'.items) : loads'.items[j].id # id]_vars

\* an entry was deleted and at least two remain
C8_Witness ==
    /\ lastEvent.op = "deleteLoad"
    /\ Len(loads.items) >= 2

\* the ids of the records of a list
IdsOf(s) == {s[k].id : k \in 1..Len(s)}

\* C15: in every state reached by the startup load and add and delete, the
\* records of the list have pairwise different ids, and no record of the
\* list has the id of a record deleted before.
C15_IdsUniqueNeverReused ==
    loads.type = "array" =>
        /\ \A j, k \in 1..Len(loads.items) :
              loads.items[j].id = loads.items[k].id => j = k
        /\ IdsOf(loads.items) \cap retiredIds = {}

\* a record was added after another one had been deleted
C15_Witness ==
    /\ lastEvent.op = "addLoad"
    /\ retiredIds # {}
    /\ Len(loads.items) = MaxStored
    /\ loads.items[1].id > MaxStored

\* C18: with a single tab, once the startup load has run, the persisted
\* list is the list in memory in every state reached by adding and deleting
\* records, so a reload restores exactly the list that was in memory.
C18_PersistedEqualsMemory ==
    appStatus = "running" =>
        /\ ~(Truthy(storage) /\ JSONparseThrows(storage))
        /\ Reloaded(storage) = loads

\* a record has been added, another one deleted, and the list is not empty
C18_Witness ==
    /\ appStatus = "running"
    /\ lastEvent.op = "deleteLoad"
    /\ retiredIds # {}
    /\ Len(loads.items) = MaxStored
    /\ loads.items[1].id > MaxStored
    /\ storage = JSONstringify(loads)

\* the step changes the list of the first tab, of the second tab
Mutates      == lastEvent'.op \in {"addLoad", "deleteLoad"} /\ loads' # loads
OtherMutates == lastEvent'.op \in {"otherAddLoad", "otherDeleteLoad"}

\* C19: with two tabs on the same key the last write wins: a mutation in a
\* tab leaves in storage the list of that tab, made of the records that tab
\* had in memory and the record it adds, and nothing else writes the
\* storage; a record another tab added in between is dropped.
C19_LastWriteWins ==
    [][/\ Mutates =>
            /\ storage' = JSONstringify(loads')
            /\ IdsOf(loads'.items) \subseteq IdsOf(loads.items) \cup {nextId}
       /\ OtherMutates =>
            /\ storage' = JSONstringify(otherLoads')
            /\ IdsOf(otherLoads'.items) \subseteq IdsOf(otherLoads.items) \cup {nextId}
       /\ ~Mutates /\ ~OtherMutates =>
            /\ storage' = storage
            /\ lastEvent'.op # "startup" => loads' = loads
            /\ lastEvent'.op # "otherStartup" => otherLoads' = otherLoads]_vars

\* the first tab added a record, then the second tab, which had loaded
\* before, deleted one: the added record is gone from storage
C19_Witness ==
    /\ lastEvent.op = "otherDeleteLoad"
    /\ storage = JSONstringify(otherLoads)
    /\ \E k \in 1..Len(loads.items) :
          /\ loads.items[k].id > MaxStored
          /\ loads.items[k].id \notin IdsOf(Reloaded(storage).items)

(***************************************************************************)
(* Image analysis: properties                                              *)
(***************************************************************************)
\* C1: whenever an analysis call fails, the state afterwards holds a
\* non-empty error message, result is null and selectedImage is the image
\* the call was started with.
C1_FailureKeepsImageNoResult ==
    lastEvent.op = "analyzeFail" =>
        /\ error # NoError /\ error # ""
        /\ result = NoResult
        /\ selectedImage = lastEvent.image

\* C2: at most one analysis request is outstanding at any time, whatever the
\* user does (analyse, upload, discard, switching tabs).
C2_AtMostOneOutstanding == BagCardinality(requests) <= 1

\* C3: while an analysis request is outstanding, selectedImage keeps the
\* value it had when the request was issued.
C3_ImageKeptWhileOutstanding ==
    \A q \in BagToSet(requests) : selectedImage = q.image

\* C4: right after an image upload completes, and right after analyzeImage
\* starts a request, result is null.
C4_ResultDiscarded ==
    lastEvent.op \in {"onloadend", "analyzeImage"} => result = NoResult

\* C16: a run of analyzeImage with an image selected sends exactly one
\* request; the end of a request, failed or not, takes that request away and
\* sends none, and no other step sends a request (no automatic retry).
C16_OneRequestNoRetry ==
    [][/\ lastEvent'.op = "analyzeImage" =>
            /\ selectedImage # NoImage
            /\ BagCardinality(requests') = BagCardinality(requests) + 1
       /\ lastEvent'.op \in {"analyzeFail", "analyzeSuccess"} =>
            BagCardinality(requests') = BagCardinality(requests) - 1
       /\ lastEvent'.op \notin {"analyzeImage", "analyzeFail", "analyzeSuccess"} =>
            BagCardinality(requests') = BagCardinality(requests)]_vars

\* a request has failed: the message is shown and nothing is in flight
C16_Witness ==
    /\ lastEvent.op = "analyzeFail"
    /\ activeTab = "analysis"
    /\ error = ErrorMessage
    /\ ~isAnalyzing
    /\ selectedImage # NoImage
    /\ requests = EmptyBag

\* C17: a response becomes the result only if it has every required field
\* and no more detected hits than expected shots, so a result that is not
\* null is a complete response within that limit.
C17_ResultValidated ==
    result # NoResult => result.shape = "full"

\* C20: while the analysis tab is shown, isAnalyzing is true exactly while a
\* request is outstanding.
C20_BusyExactlyWhileOutstanding ==
    appStatus = "running" /\ activeTab = "analysis" =>
        (isAnalyzing <=> requests # EmptyBag)

\* C21: whenever result is not null, selectedImage is not null and is the
\* image the result was computed from.
C21_ResultBelongsToImage ==
    result # NoResult =>
        /\ selectedImage # NoImage
        /\ result.forImage = selectedImage

\* the events of the image-analysis flow
AnalysisOps ==
    {"handleImageUpload", "onloadend", "analyzeImage", "analyzeSuccess",
     "analyzeFail", "discard"}

\* C9: no step of the image-analysis flow (upload, start, success, failure,
\* discard) changes the persisted load list or the in-memory load list.
C9_AnalysisLeavesLoadsAlone ==
    [][lastEvent'.op \in AnalysisOps => UNCHANGED <<loads, storage>>]_vars

\* an analysis has delivered a result while a stored list of loads exists
C9_Witness ==
    /\ lastEvent.op = "analyzeSuccess"
    /\ result # NoResult
    /\ Len(loads.items) > 0
    /\ StoredIsList(storage) /\ JSONparse(storage) = loads

====
